---- MODULE Spec2Model ----
(***************************************************************************)
(* MSX CAS Packager (mcp): the container codec (block scanner, file        *)
(* iterator, append operations, serialization), the tape-name helper and   *)
(* the WAVE exporter, modelled at the byte level.                          *)
(***************************************************************************)
EXTENDS Integers, Sequences, FiniteSets, TLC

VARIABLES
    pc,        \* which operation ran last / where the caller stands
    bytes,     \* the buffer handed to Tape::from_bytes
    blocks,    \* Tape.blocks: block payloads, in tape order
    i,         \* Files.i: the cursor of the file iterator
    yielded,   \* the Files the iterator has returned so far, in order
    last,      \* the file handed to the last add_*_file: kind, name, content
    ret,       \* the padding count the last add_*_file returned
    base,      \* the number of Blocks of the tape before the last add_*_file
    nadded,    \* the number of files added to the tape
    roles,     \* for each Block an append built: its file and its part
    path,      \* the path handed to file_name_of
    parts,     \* the directory, stem and extension the path was built from
    fname,     \* the 6-byte tape name file_name_of returned
    truncated, \* the truncation flag file_name_of returned
    buffer,    \* Exporter.buffer: the samples encoded so far, as runs
    output,    \* the file export wrote: its header and its sample data
    nbytes,    \* the sample count the last write operation returned
    nwrites,   \* the number of write operations done on the exporter
    call,      \* the last write operation and its argument
    encoded,   \* main.rs export: the number of Blocks encoded so far
    disk,      \* the files of the file system: path |-> content
    wpath,     \* the path of the CAS file handed to add_files
    before,    \* the file system when the command started
    rderr,     \* read_to_end failed in the last read_content
    added,     \* the files add_files has added to the tape, in order
    written,   \* the paths extract_all has written, in order
    uniq,      \* a call of unique_filename: the path and what it returned
    noread     \* the paths of the disk that File::open cannot open

vars == <<pc, bytes, blocks, i, yielded, last, ret, base, nadded, roles,
          path, parts, fname, truncated, buffer, output, nbytes, nwrites,
          call, encoded, disk, wpath, before, rderr, added,
          written, uniq, noread>>

tapeVars == <<bytes, blocks, i, yielded>>

appendVars == <<last, ret, base, nadded, roles>>

nameVars == <<path, parts, fname, truncated>>

wavVars == <<buffer, output, nbytes, nwrites, call, encoded>>

fsVars == <<disk, wpath, before, rderr, added, written, uniq, noread>>

----------------------------------------------------------------------------
(* Byte strings *)

RECURSIVE Flatten(_)
Flatten(ss) == IF ss = <<>> THEN <<>> ELSE Head(ss) \o Flatten(Tail(ss))

Fill(n, b) == [k \in 1..n |-> b]

\* bytes[from..to] of Rust, offsets counted from 0, `to` exclusive
Slice(s, from, to) == SubSeq(s, from + 1, to)

----------------------------------------------------------------------------
(* tape.rs: blocks *)

Marker == <<31, 166, 222, 186, 204, 19, 125, 116>>

Pilot == Fill(10, 208)

is_bin_header(data) == Len(data) >= 16 /\ Slice(data, 0, 10) = Pilot

IsCont(b) == b \in 128..191

\* std::str::from_utf8(..).is_ok(), from position k (counted from 1)
RECURSIVE Utf8From(_, _)
Utf8From(s, k) ==
    IF k > Len(s) THEN TRUE
    ELSE LET b == s[k]
             n == Len(s)
         IN  IF b < 128 THEN Utf8From(s, k + 1)
             ELSE IF b \in 194..223
                  THEN k + 1 <= n /\ IsCont(s[k+1]) /\ Utf8From(s, k + 2)
             ELSE IF b = 224
                  THEN k + 2 <= n /\ s[k+1] \in 160..191 /\ IsCont(s[k+2])
                       /\ Utf8From(s, k + 3)
             ELSE IF b \in (225..236) \cup (238..239)
                  THEN k + 2 <= n /\ IsCont(s[k+1]) /\ IsCont(s[k+2])
                       /\ Utf8From(s, k + 3)
             ELSE IF b = 237
                  THEN k + 2 <= n /\ s[k+1] \in 128..159 /\ IsCont(s[k+2])
                       /\ Utf8From(s, k + 3)
             ELSE IF b = 240
                  THEN k + 3 <= n /\ s[k+1] \in 144..191 /\ IsCont(s[k+2])
                       /\ IsCont(s[k+3]) /\ Utf8From(s, k + 4)
             ELSE IF b \in 241..243
                  THEN k + 3 <= n /\ IsCont(s[k+1]) /\ IsCont(s[k+2])
                       /\ IsCont(s[k+3]) /\ Utf8From(s, k + 4)
             ELSE IF b = 244
                  THEN k + 3 <= n /\ s[k+1] \in 128..143 /\ IsCont(s[k+2])
                       /\ IsCont(s[k+3]) /\ Utf8From(s, k + 4)
             ELSE FALSE

from_utf8_ok(s) == Utf8From(s, 1)

\* Block::file_name: Some(name) iff the block is a header with a text name
file_name_some(data) == is_bin_header(data) /\ from_utf8_ok(Slice(data, 10, 16))

----------------------------------------------------------------------------
(* tape.rs: Tape::parse_blocks *)

\* first loop: the offsets (from 0) of the windows equal to the marker, in
\* the order of the scan; the windows lo..hi are scanned in two halves
RECURSIVE hindex_range(_, _, _)
hindex_range(b, lo, hi) ==
    IF lo > hi THEN <<>>
    ELSE IF lo = hi
         THEN (IF Slice(b, lo, lo + 8) = Marker THEN <<lo>> ELSE <<>>)
         ELSE LET mid == (lo + hi) \div 2
              IN  hindex_range(b, lo, mid) \o hindex_range(b, mid + 1, hi)

hindex(b) == hindex_range(b, 0, Len(b) - 8)

\* a scanner that forgets to skip the marker
block_from_unskipped(b, h, k) == h[k]

block_from(b, h, k) == h[k] + 8

block_to(b, h, k) == IF k = Len(h) THEN Len(b) ELSE h[k+1]

\* &bytes[from..to] panics when from > to or to > len
parse_panics(b) ==
    LET h == hindex(b)
    IN  \E k \in 1..Len(h) :
            \/ block_from(b, h, k) > block_to(b, h, k)
            \/ block_to(b, h, k) > Len(b)

parse_blocks(b) ==
    LET h == hindex(b)
    IN  [k \in 1..Len(h) |-> Slice(b, block_from(b, h, k), block_to(b, h, k))]

----------------------------------------------------------------------------
(* tape.rs: Files::next *)

\* the two bytes taken in the wrong order
le16_swapped(lo, hi) == hi + 256 * lo

\* (lo as usize) | (hi as usize) << 8
le16(lo, hi) == lo + 256 * hi

NoFile == [kind |-> "None", name |-> <<>>, begin |-> 0, end |-> 0,
           start |-> 0, data |-> <<>>]

BinFile(name, begin, end, start, data) ==
    [kind |-> "Bin", name |-> name, begin |-> begin, end |-> end,
     start |-> start, data |-> data]

CustomFile(data) ==
    [kind |-> "Custom", name |-> <<>>, begin |-> 0, end |-> 0,
     start |-> 0, data |-> data]

\* One call of next() on the cursor c: the outcome is a panic, Some(file)
\* with the new cursor, or None.
files_next(bl, c) ==
    IF c < Len(bl)
    THEN LET block == bl[c + 1]
         IN  IF is_bin_header(block)
             THEN IF \/ ~ file_name_some(block)       \* file_name().unwrap()
                     \/ c + 1 >= Len(bl)               \* blocks[self.i+1]
                     \/ Len(bl[c + 2]) < 6             \* content[0..5], [6..]
                  THEN [panic |-> TRUE, some |-> FALSE, file |-> NoFile, i |-> c]
                  ELSE LET content == bl[c + 2]
                       IN  [panic |-> FALSE, some |-> TRUE,
                            file  |-> BinFile(Slice(block, 10, 16),
                                        le16(content[1], content[2]),
                                        le16(content[3], content[4]),
                                        le16(content[5], content[6]),
                                        Slice(content, 6, Len(content))),
                            i |-> c + 2]
             ELSE [panic |-> FALSE, some |-> TRUE,
                   file |-> CustomFile(block), i |-> c + 1]
    ELSE [panic |-> FALSE, some |-> FALSE, file |-> NoFile, i |-> c]

----------------------------------------------------------------------------
(* Input buffers of the decoder: every concatenation of at most MaxChunks  *)
(* chunks.  The chunks are chosen so that markers, near-markers, headers,  *)
(* non-text names, and short, exact and long data blocks all occur.        *)

MaxChunks == 5

ChunkFoobar == <<70, 79, 79, 66, 65, 82>>

ChunkAddrData == <<0, 128, 8, 128, 0, 0, 1, 2, 3, 4, 5, 6, 7>>

\* 0xFF followed by the first seven bytes of the marker
ChunkNearMarker == <<255>> \o SubSeq(Marker, 1, 7)

\* the last byte of the marker
ChunkTail == <<116>>

\* the payload of a whole header Block
ChunkHeader == Pilot \o ChunkFoobar

Chunks == <<Marker, Pilot, ChunkFoobar, ChunkAddrData, ChunkNearMarker,
            ChunkTail, ChunkHeader>>

ChunkSeqs == UNION {[1..n -> 1..Len(Chunks)] : n \in 0..MaxChunks}

Buffers == {Flatten([k \in 1..Len(cs) |-> Chunks[cs[k]]]) : cs \in ChunkSeqs}

NoInput == [kind |-> "None", name |-> <<>>, data |-> <<>>]

NoParts == [dir |-> <<>>, stem |-> <<>>, ext |-> <<>>]

TapeIdle == bytes = <<>> /\ blocks = <<>> /\ i = 0 /\ yielded = <<>>

AppendIdle ==
    last = NoInput /\ ret = 0 /\ base = 0 /\ nadded = 0 /\ roles = <<>>

NameIdle == path = <<>> /\ parts = NoParts /\ fname = <<>> /\ truncated = FALSE

NoOutput == [header |-> <<>>, data |-> <<>>]

NoCall == [op |-> "none", arg |-> <<>>]

WavIdle ==
    /\ buffer = <<>> /\ output = NoOutput
    /\ nbytes = 0 /\ nwrites = 0 /\ call = NoCall /\ encoded = 0

NoDisk == [p \in {} |-> <<>>]

FsIdle ==
    /\ disk = NoDisk /\ wpath = <<>> /\ before = NoDisk
    /\ rderr = FALSE /\ added = <<>>
    /\ written = <<>> /\ uniq = NoCall /\ noread = {}

----------------------------------------------------------------------------
(* Decoding: Tape::from_bytes, Tape::files, Files::next *)

InitDecode ==
    /\ pc = "start"
    /\ TapeIdle /\ AppendIdle /\ NameIdle /\ WavIdle /\ FsIdle

\* Tape::from_bytes(bytes)
from_bytes ==
    /\ pc = "start"
    /\ \E b \in Buffers :
        /\ bytes' = b
        /\ IF parse_panics(b)
           THEN pc' = "parse_panic" /\ blocks' = <<>>
           ELSE pc' = "tape" /\ blocks' = parse_blocks(b)
    /\ UNCHANGED <<i, yielded>>
    /\ UNCHANGED <<appendVars, nameVars, wavVars, fsVars>>

\* tape.files(): a new iterator at Block 0
files ==
    /\ pc \in {"tape", "iter", "none"}
    /\ pc' = "iter"
    /\ i' = 0
    /\ yielded' = <<>>
    /\ UNCHANGED <<bytes, blocks>>
    /\ UNCHANGED <<appendVars, nameVars, wavVars, fsVars>>

\* Files::next()
next ==
    /\ pc \in {"iter", "none"}
    /\ LET r == files_next(blocks, i)
       IN  IF r.panic
           THEN pc' = "panic" /\ UNCHANGED <<i, yielded>>
           ELSE IF r.some
           THEN pc' = "iter" /\ i' = r.i /\ yielded' = Append(yielded, r.file)
           ELSE pc' = "none" /\ UNCHANGED <<i, yielded>>
    /\ UNCHANGED <<bytes, blocks>>
    /\ UNCHANGED <<appendVars, nameVars, wavVars, fsVars>>

NextDecode == from_bytes \/ files \/ next

SpecDecode == InitDecode /\ [][NextDecode]_vars

----------------------------------------------------------------------------
(* Tape: the append operations and the serialization *)

AsciiChunk == 256

EofFiller == 26

BinId == 254

\* a padding that is never 0: a whole unit when the length is aligned
zero_padding_full(n) == 8 - (n % 8)

\* the number of zero bytes that bring a payload of n bytes to a multiple of 8
zero_padding(n) == (8 - (n % 8)) % 8

\* a padding that adds a whole chunk of filler to an aligned payload
ascii_padding_full(n) == AsciiChunk - (n % AsciiChunk)

\* the number of filler bytes that bring n bytes to a multiple of 256
ascii_padding(n) == (AsciiChunk - (n % AsciiChunk)) % AsciiChunk

\* a header Block: ten 0xD0 bytes and the 6-byte name
header_block(name) == Pilot \o name

\* the payload cut in chunks of `size` bytes (the last one may be shorter)
RECURSIVE chunks_of(_, _)
chunks_of(data, size) ==
    IF data = <<>> THEN <<>>
    ELSE IF Len(data) <= size THEN <<data>>
    ELSE <<SubSeq(data, 1, size)>> \o chunks_of(SubSeq(data, size + 1, Len(data)), size)

\* each append gives the new Blocks of the tape and the padding count
append_bin(bl, name, data) ==
    LET d == IF data # <<>> /\ data[1] = BinId THEN Tail(data) ELSE data
        p == zero_padding(Len(d))
    IN  [blocks |-> bl \o <<header_block(name), d \o Fill(p, 0)>>, ret |-> p]

append_basic(bl, name, data) ==
    LET p == zero_padding(Len(data))
    IN  [blocks |-> bl \o <<header_block(name), data \o Fill(p, 0)>>, ret |-> p]

append_ascii(bl, name, data) ==
    LET p == ascii_padding(Len(data))
    IN  [blocks |-> bl \o <<header_block(name)>>
                       \o chunks_of(data \o Fill(p, EofFiller), AsciiChunk),
         ret |-> p]

append_custom(bl, data) ==
    LET p == zero_padding(Len(data))
    IN  [blocks |-> bl \o <<data \o Fill(p, 0)>>, ret |-> p]

\* Block::data(): the Block as it is stored, the marker and the payload
block_data(payload) == Marker \o payload

\* a save that writes the payloads without their markers
save_tape_unframed(bl) == Flatten(bl)

\* main.rs save_tape: the buffer handed to write_content
save_tape(bl) == Flatten([k \in 1..Len(bl) |-> block_data(bl[k])])

----------------------------------------------------------------------------
(* The files given to add_files *)

MaxAppends == 2

MaxDataLen == 8

Iota(n) == [k \in 1..n |-> k]

FileName == ChunkFoobar

\* file contents: every length up to MaxDataLen, contents that start with
\* the BIN id byte, a content that holds a marker, one that looks like a
\* header Block
FileContents ==
    {Iota(n) : n \in 0..MaxDataLen}
      \cup {<<BinId>> \o Iota(n) : n \in {0, 7, 8}}
      \cup {<<7>> \o Marker \o <<9>>, Pilot \o ChunkFoobar}

\* text contents around the chunk size
TextContents ==
    {Fill(n, 65) : n \in {0, 1, AsciiChunk - 1, AsciiChunk, AsciiChunk + 1}}

\* the parts of the n Blocks an append builds for its file: a Custom file
\* is one Block, the other files are a header Block and data Blocks
block_roles(file, kind, n) ==
    IF kind = "Custom" THEN [k \in 1..n |-> [file |-> file, part |-> "custom"]]
    ELSE [k \in 1..n |->
            [file |-> file, part |-> IF k = 1 THEN "header" ELSE "data"]]

InitAppend ==
    /\ pc = "appending"
    /\ TapeIdle /\ AppendIdle /\ NameIdle /\ WavIdle /\ FsIdle

Added(kind, name, data, r) ==
    /\ blocks' = r.blocks
    /\ ret' = r.ret
    /\ last' = [kind |-> kind, name |-> name, data |-> data]
    /\ base' = Len(blocks)
    /\ nadded' = nadded + 1
    /\ roles' = roles \o block_roles(nadded + 1, kind, Len(r.blocks) - Len(blocks))
    /\ pc' = "appending"
    /\ UNCHANGED <<bytes, i, yielded>>
    /\ UNCHANGED <<nameVars, wavVars, fsVars>>

\* main.rs add_bin_file
add_bin_file ==
    /\ pc = "appending" /\ nadded < MaxAppends
    /\ \E data \in FileContents :
         Added("Bin", FileName, data, append_bin(blocks, FileName, data))

\* main.rs add_basic_file
add_basic_file ==
    /\ pc = "appending" /\ nadded < MaxAppends
    /\ \E data \in FileContents :
         Added("Basic", FileName, data, append_basic(blocks, FileName, data))

\* main.rs add_ascii_file
add_ascii_file ==
    /\ pc = "appending" /\ nadded < MaxAppends
    /\ \E data \in TextContents :
         Added("Ascii", FileName, data, append_ascii(blocks, FileName, data))

\* main.rs add_custom_file
add_custom_file ==
    /\ pc = "appending" /\ nadded < MaxAppends
    /\ \E data \in FileContents :
         Added("Custom", <<>>, data, append_custom(blocks, data))

\* main.rs save_tape: the serialized tape becomes the content of the file
save ==
    /\ pc = "appending"
    /\ bytes' = save_tape(blocks)
    /\ pc' = "saved"
    /\ UNCHANGED <<blocks, i, yielded>>
    /\ UNCHANGED <<appendVars, nameVars, wavVars, fsVars>>

\* Tape::read: the file is read back and scanned
read ==
    /\ pc = "saved"
    /\ IF parse_panics(bytes)
       THEN pc' = "parse_panic" /\ UNCHANGED blocks
       ELSE pc' = "tape" /\ blocks' = parse_blocks(bytes)
    /\ UNCHANGED <<bytes, i, yielded>>
    /\ UNCHANGED <<appendVars, nameVars, wavVars, fsVars>>

NextAppend ==
    \/ add_bin_file
    \/ add_basic_file
    \/ add_ascii_file
    \/ add_custom_file
    \/ save
    \/ read
    \/ files
    \/ next

SpecAppend == InitAppend /\ [][NextAppend]_vars

----------------------------------------------------------------------------
(* file.rs: the tape name of a path *)

Slash == 47

Dot == 46

Space == 32

\* the segments of a path between its slashes
RECURSIVE split_path(_)
split_path(p) ==
    IF \A k \in DOMAIN p : p[k] # Slash THEN <<p>>
    ELSE LET k == CHOOSE x \in DOMAIN p :
                      p[x] = Slash /\ \A y \in 1..(x - 1) : p[y] # Slash
         IN  <<SubSeq(p, 1, k - 1)>> \o split_path(SubSeq(p, k + 1, Len(p)))

\* Path::file_name: the last component when it is a normal one
path_file_name(p) ==
    LET normal == SelectSeq(split_path(p), LAMBDA c : c # <<>> /\ c # <<Dot>>)
    IN  IF normal = <<>> \/ normal[Len(normal)] = <<Dot, Dot>>
        THEN [some |-> FALSE, val |-> <<>>]
        ELSE [some |-> TRUE, val |-> normal[Len(normal)]]

\* the file name cut at its last dot, unless it has none or starts with it
stem_of(name) ==
    LET dots == {k \in DOMAIN name : name[k] = Dot}
    IN  IF dots = {} THEN name
        ELSE LET d == CHOOSE x \in dots : \A y \in dots : y <= x
             IN  IF d = 1 THEN name ELSE SubSeq(name, 1, d - 1)

\* Path::file_stem
path_file_stem(p) ==
    LET f == path_file_name(p)
    IN  IF f.some THEN [some |-> TRUE, val |-> stem_of(f.val)] ELSE f

\* tape::file_name: six bytes, padded with spaces or truncated, and the flag
tape_file_name(str) ==
    [name |-> [k \in 1..6 |-> IF k <= Len(str) THEN str[k] ELSE Space],
     truncated |-> Len(str) > 6]

NameError == [ok |-> FALSE, name |-> <<>>, truncated |-> FALSE]

\* a name taken from the whole file name, extension included
file_name_of_full(p) ==
    LET f == path_file_name(p)
    IN  IF ~ f.some \/ ~ from_utf8_ok(f.val) THEN NameError
        ELSE [ok |-> TRUE, name |-> tape_file_name(f.val).name,
              truncated |-> tape_file_name(f.val).truncated]

file_name_of(p) ==
    LET st == path_file_stem(p)
    IN  IF ~ st.some \/ ~ from_utf8_ok(st.val) THEN NameError
        ELSE [ok |-> TRUE, name |-> tape_file_name(st.val).name,
              truncated |-> tape_file_name(st.val).truncated]

MaxStem == 7

StemChars == {97, 98}

Stems == UNION {[1..n -> StemChars] : n \in 1..MaxStem}

Dirs == {<<>>, <<Slash>>, <<100, Slash>>, <<Dot, Dot, Slash>>,
         <<Slash, 112, Slash, 116, 46, 111, Slash>>}

Exts == {<<>>, <<Dot, 98, 105, 110>>, <<Dot, 98>>}

\* paths without a file name, and a path whose stem is not text
NoNamePaths == {<<>>, <<Slash>>, <<Dot, Dot>>, <<100, Slash, Dot, Dot>>, <<Dot>>,
                <<100, Slash, 255, 97, Dot, 98>>}

InitName ==
    /\ pc = "start"
    /\ TapeIdle /\ AppendIdle /\ NameIdle /\ WavIdle /\ FsIdle

NameOf(p, pt) ==
    LET r == file_name_of(p)
    IN  /\ path' = p
        /\ parts' = pt
        /\ fname' = r.name
        /\ truncated' = r.truncated
        /\ pc' = IF r.ok THEN "named" ELSE "name_error"
        /\ UNCHANGED <<tapeVars, appendVars, wavVars, fsVars>>

\* file_name_of on the path dir + stem + ext
name_of_file ==
    /\ pc = "start"
    /\ \E d \in Dirs, st \in Stems, e \in Exts :
         NameOf(d \o st \o e, [dir |-> d, stem |-> st, ext |-> e])

\* file_name_of on a path that has no usable file name
name_of_nothing ==
    /\ pc = "start"
    /\ \E p \in NoNamePaths : NameOf(p, NoParts)

NextName == name_of_file \/ name_of_nothing

SpecName == InitName /\ [][NextName]_vars

----------------------------------------------------------------------------
(* file.rs: the files on disk *)

\* exists: File::open(file) succeeds
exists(d, p) == p \in DOMAIN d /\ p \notin noread

\* fs::remove_file
remove(d, p) == [q \in DOMAIN d \ {p} |-> d[q]]

\* File::create followed by write_all of the whole content
create(d, p, content) == (p :> content) @@ d

\* fs::rename: the file `from` takes the place of `to`
rename(d, from, to) == (to :> d[from]) @@ remove(d, from)

\* Path::with_file_name, for a path that ends with its file name
with_file_name(p, name) ==
    LET slashes == {k \in DOMAIN p : p[k] = Slash}
        dir == IF slashes = {} THEN 0
               ELSE CHOOSE x \in slashes : \A y \in slashes : y <= x
    IN  SubSeq(p, 1, dir) \o name

TempSuffix == <<Dot, 116, 101, 109, 112>>

NoPath == [ok |-> FALSE, path |-> <<>>]

\* temporary: the file name with ".temp" behind it, in the same directory
temporary(p) ==
    LET f == path_file_name(p)
    IN  IF ~ f.some \/ ~ from_utf8_ok(f.val) THEN NoPath
        ELSE [ok |-> TRUE, path |-> with_file_name(p, f.val \o TempSuffix)]

\* Path::extension: what follows the last dot of the file name
path_extension(p) ==
    LET f == path_file_name(p)
    IN  IF ~ f.some \/ stem_of(f.val) = f.val
        THEN [some |-> FALSE, val |-> <<>>]
        ELSE [some |-> TRUE,
              val |-> SubSeq(f.val, Len(stem_of(f.val)) + 2, Len(f.val))]

\* str::to_lowercase, on ASCII letters
to_lowercase(str) ==
    [k \in DOMAIN str |-> IF str[k] \in 65..90 THEN str[k] + 32 ELSE str[k]]

has_extension(p, ext) ==
    LET e == path_extension(p)
    IN  e.some /\ from_utf8_ok(e.val) /\ to_lowercase(e.val) = ext

is_bin_file(p) == has_extension(p, <<98, 105, 110>>)

is_ascii_file(p) == has_extension(p, <<97, 115, 99>>)

is_basic_file(p) == has_extension(p, <<98, 97, 115>>)

\* read_content on a file of the given content: `opened` tells whether
\* File::open succeeds, `readok` whether read_to_end does, `got` is what
\* read_to_end had put in `data` when it failed.  The result of read_to_end
\* is dropped by the second map.
read_content(opened, readok, content, got) ==
    IF ~ opened THEN [ok |-> FALSE, data |-> <<>>]
    ELSE [ok |-> TRUE, data |-> IF readok THEN content ELSE got]

----------------------------------------------------------------------------
(* main.rs: add_files, from the CAS file on disk to the CAS file on disk *)

MaxFiles == 2

\* t.cas
CasPath == <<116, Dot, 99, 97, 115>>

\* the CAS file of the command line: a file, or a path without file name
CasPaths == {CasPath, <<Dot, Dot>>}

\* a.bin, b.BAS, c.asc, d, and a name that is not text
SrcPaths ==
    {<<97, Dot, 98, 105, 110>>, <<98, Dot, 66, 65, 83>>,
     <<99, Dot, 97, 115, 99>>, <<100>>, <<255, Dot, 98, 105, 110>>}

SrcContents == {Iota(3), <<BinId>> \o Iota(7)}

\* CAS files written by earlier runs: no Block, one Block, a header and data
CasFiles ==
    {<<>>, save_tape(<<ChunkAddrData>>),
     save_tape(<<header_block(FileName), ChunkAddrData>>)}

\* the disk at the start: the CAS file is there or not, and a temporary
\* file may be left from an earlier run
InitDisks(p) ==
    IF ~ temporary(p).ok THEN {NoDisk}
    ELSE {NoDisk}
           \cup {create(NoDisk, p, c) : c \in CasFiles}
           \cup {create(create(NoDisk, p, save_tape(<<ChunkAddrData>>)),
                        temporary(p).path, <<1>>)}

InitAdd ==
    /\ pc = "start"
    /\ TapeIdle /\ AppendIdle /\ NameIdle /\ WavIdle
    /\ wpath \in CasPaths
    /\ disk \in InitDisks(wpath)
    /\ before = disk
    /\ rderr = FALSE
    /\ added = <<>>
    /\ written = <<>>
    /\ uniq = NoCall
    /\ noread = {}

\* add_files: Tape::from_file(path) on a file that can be read, or on a path
\* where no file is (then Tape::new())
add_files_open ==
    /\ pc = "start"
    /\ IF exists(disk, wpath)
       THEN bytes' = disk[wpath] /\ blocks' = parse_blocks(disk[wpath])
       ELSE UNCHANGED <<bytes, blocks>>
    /\ pc' = "adding"
    /\ UNCHANGED <<i, yielded>>
    /\ UNCHANGED <<appendVars, nameVars, wavVars, fsVars>>

\* add_files: Tape::from_file(path) fails on a file that is there (its read
\* fails), and unwrap_or_else gives Tape::new()
add_files_open_fails ==
    /\ pc = "start"
    /\ exists(disk, wpath)
    /\ pc' = "adding"
    /\ UNCHANGED <<tapeVars, appendVars, nameVars, wavVars, fsVars>>

file_kind(f) ==
    IF is_bin_file(f) THEN "Bin"
    ELSE IF is_ascii_file(f) THEN "Ascii"
    ELSE IF is_basic_file(f) THEN "Basic"
    ELSE "Custom"

append_file(bl, kind, name, data) ==
    IF kind = "Bin" THEN append_bin(bl, name, data)
    ELSE IF kind = "Ascii" THEN append_ascii(bl, name, data)
    ELSE IF kind = "Basic" THEN append_basic(bl, name, data)
    ELSE append_custom(bl, data)

\* add_files, one round of the loop: add_bin_file, add_ascii_file,
\* add_basic_file or add_custom_file on the next file
add_file ==
    /\ pc = "adding"
    /\ nadded < MaxFiles
    /\ \E f \in SrcPaths, content \in SrcContents, opened, readok \in BOOLEAN :
        /\ opened \/ readok
        /\ LET rd == read_content(opened, readok, content,
                                  SubSeq(content, 1, Len(content) \div 2))
               nm == file_name_of(f)
               kind == file_kind(f)
               name == IF kind = "Custom" THEN <<>> ELSE nm.name
               r == append_file(blocks, kind, name, rd.data)
           IN  /\ rderr' = (rderr \/ (opened /\ ~ readok))
               /\ IF ~ rd.ok \/ (kind # "Custom" /\ ~ nm.ok)
                  THEN /\ pc' = "add_error"
                       /\ UNCHANGED <<blocks, appendVars, added>>
                  ELSE /\ pc' = "adding"
                       /\ blocks' = r.blocks
                       /\ ret' = r.ret
                       /\ last' = [kind |-> kind, name |-> name, data |-> rd.data]
                       /\ base' = Len(blocks)
                       /\ nadded' = nadded + 1
                       /\ roles' = roles \o block_roles(nadded + 1, kind,
                                          Len(r.blocks) - Len(blocks))
                       /\ added' = Append(added, [kind |-> kind, name |-> name,
                                                  data |-> rd.data])
    /\ UNCHANGED <<bytes, i, yielded, disk, wpath, before, written, uniq, noread>>
    /\ UNCHANGED <<nameVars, wavVars>>

\* save_tape: the Blocks in a buffer; write_content: the temporary path
add_files_save ==
    /\ pc = "adding"
    /\ bytes' = save_tape(blocks)
    /\ pc' = IF temporary(wpath).ok THEN "wc_create" ELSE "add_error"
    /\ UNCHANGED <<blocks, i, yielded>>
    /\ UNCHANGED <<appendVars, nameVars, wavVars, fsVars>>

WriteStep(to, d) ==
    /\ pc' = to
    /\ disk' = d
    /\ UNCHANGED <<wpath, before, rderr, added, written, uniq, noread>>
    /\ UNCHANGED <<tapeVars, appendVars, nameVars, wavVars>>

\* write_content: fs::File::create(&temp_path)
wc_create ==
    /\ pc = "wc_create"
    /\ WriteStep("wc_write", create(disk, temporary(wpath).path, <<>>))

\* write_content: file.write_all(content)
wc_write ==
    /\ pc = "wc_write"
    /\ WriteStep("wc_remove", create(disk, temporary(wpath).path, bytes))

\* write_content: write_all fails when a part of the content is written
wc_write_fails ==
    /\ pc = "wc_write"
    /\ WriteStep("add_error", create(disk, temporary(wpath).path,
                                     SubSeq(bytes, 1, Len(bytes) \div 2)))

\* write_content: if exists(path) { remove(path) }
wc_remove ==
    /\ pc = "wc_remove"
    /\ WriteStep("wc_rename",
                 IF exists(disk, wpath) THEN remove(disk, wpath) ELSE disk)

\* write_content: fs::rename(&temp_path, path)
wc_rename ==
    /\ pc = "wc_rename"
    /\ WriteStep("add_done", rename(disk, temporary(wpath).path, wpath))

\* write_content: File::create, remove or fs::rename fails
wc_fails ==
    /\ \/ pc \in {"wc_create", "wc_rename"}
       \/ pc = "wc_remove" /\ exists(disk, wpath)
    /\ WriteStep("add_error", disk)

NextAdd ==
    \/ add_files_open
    \/ add_files_open_fails
    \/ add_file
    \/ add_files_save
    \/ wc_create
    \/ wc_write
    \/ wc_write_fails
    \/ wc_remove
    \/ wc_rename
    \/ wc_fails

SpecAdd == InitAdd /\ [][NextAdd]_vars

----------------------------------------------------------------------------
(* file.rs: unique_filename; main.rs: extract_all and extract_file *)

Dash == 45

\* format!("{}", n)
RECURSIVE fmt_decimal(_)
fmt_decimal(n) ==
    IF n < 10 THEN <<48 + n>>
    ELSE fmt_decimal(n \div 10) \o <<48 + (n % 10)>>

\* format!("{:03}", n)
fmt_03(n) == Fill(3 - Len(fmt_decimal(n)), 48) \o fmt_decimal(n)

NoUnique == [ok |-> FALSE, path |-> <<>>, clash |-> FALSE]

RECURSIVE unique_filename_for_suffix(_, _, _)
unique_filename_for_suffix(d, p, suffix) ==
    LET stem == path_file_stem(p)
        e == path_extension(p)
        ext == IF e.some /\ from_utf8_ok(e.val) THEN <<Dot>> \o e.val ELSE <<>>
        target == with_file_name(p, stem.val \o <<Dash>> \o fmt_decimal(suffix) \o ext)
    IN  IF ~ stem.some \/ ~ from_utf8_ok(stem.val) THEN NoUnique
        ELSE IF ~ exists(d, target)
        THEN [ok |-> TRUE, path |-> target, clash |-> TRUE]
        ELSE unique_filename_for_suffix(d, p, suffix + 1)

\* a unique_filename that gives every path back as it is
unique_filename_same(d, p) == [ok |-> TRUE, path |-> p, clash |-> FALSE]

unique_filename(d, p) ==
    IF ~ exists(d, p) THEN [ok |-> TRUE, path |-> p, clash |-> FALSE]
    ELSE unique_filename_for_suffix(d, p, 1)

\* File::name: the name of a file that has one
File_name(f) ==
    IF f.kind = "Custom" THEN [some |-> FALSE, val |-> <<>>]
    ELSE [some |-> TRUE, val |-> f.name]

\* "custom."
CustomPrefix == <<99, 117, 115, 116, 111, 109, Dot>>

\* extract_all: the output path of the next file, after `customs` files
\* without name
out_path_of(f, customs) ==
    IF File_name(f).some THEN File_name(f).val
    ELSE CustomPrefix \o fmt_03(customs + 1)

\* File::Ascii(name, chunks)
AsciiFile(name, chunks) ==
    [kind |-> "Ascii", name |-> name, begin |-> 0, end |-> 0,
     start |-> 0, data |-> chunks]

\* extract_file, Ascii: &chunk[..last], `last` being the position of the first
\* 0x1a of the chunk, or its length
up_to_eof(chunk) ==
    LET eofs == {k \in 1..Len(chunk) : chunk[k] = EofFiller}
        upto == IF eofs = {} THEN Len(chunk)
                ELSE (CHOOSE k \in eofs : \A j \in eofs : k <= j) - 1
    IN  SubSeq(chunk, 1, upto)

\* extract_file: the bytes written for a file
extract_bytes(f) ==
    IF f.kind = "Bin" THEN <<BinId>> \o f.data
    ELSE IF f.kind = "Ascii"
    THEN Flatten([k \in 1..Len(f.data) |-> up_to_eof(f.data[k])])
    ELSE f.data

MaxEntries == 4

\* AB.BIN
NameAbBin == <<65, 66, Dot, 66, 73, 78>>

ExtractPayloads ==
    {header_block(FileName), header_block(NameAbBin), ChunkAddrData, <<1, 2>>}

ExtractTapes == UNION {[1..n -> ExtractPayloads] : n \in 0..MaxEntries}

DiskOf(names) == [p \in names |-> <<0>>]

\* the files in the output directory before the command: none, files with
\* the names of the tape, with the names unique_filename makes, and files
\* whose names are not text
ExtractDisks ==
    {DiskOf({}),
     DiskOf({FileName}),
     DiskOf({FileName, FileName \o <<Dash, 49>>}),
     DiskOf({FileName \o <<Dash, 49>>}),
     DiskOf({NameAbBin, CustomPrefix \o <<48, 48, 49>>}),
     DiskOf({NameAbBin, <<65, 66, Dash, 49, Dot, 66, 73, 78>>,
             CustomPrefix \o <<48, 48, 49>>, <<99, 117, 115, 116, 111, 109, Dash, 49, Dot, 48, 48, 49>>}),
     DiskOf({<<255, 97>>, <<65, 66, Dot, 255>>, <<100, Slash>> \o FileName})}

\* the paths handed to unique_filename: directory, stem and extension
UniqueParts ==
    [dir : {<<>>, <<100, Slash>>},
     stem : {FileName, <<65, 66>>, <<255, 97>>},
     ext : {<<>>, <<Dot, 66, 73, 78>>, <<Dot, 255>>}]

InitExtract ==
    /\ pc = "start"
    /\ TapeIdle /\ AppendIdle /\ NameIdle /\ WavIdle
    /\ disk \in ExtractDisks
    /\ before = disk
    /\ wpath = <<>>
    /\ rderr = FALSE
    /\ added = <<>>
    /\ written = <<>>
    /\ uniq = NoCall
    /\ noread \in {{}} \cup {{p} : p \in DOMAIN disk}

\* unique_filename(path)
unique_call ==
    /\ pc = "start"
    /\ \E pt \in UniqueParts :
         uniq' = [parts |-> pt, path |-> pt.dir \o pt.stem \o pt.ext,
                  res |-> unique_filename(disk, pt.dir \o pt.stem \o pt.ext)]
    /\ pc' = "unique"
    /\ UNCHANGED <<disk, wpath, before, rderr, added, written, noread>>
    /\ UNCHANGED <<tapeVars, appendVars, nameVars, wavVars>>

\* extract_all: Tape::from_file(path) and tape.files()
extract_open ==
    /\ pc = "start"
    /\ \E bl \in ExtractTapes :
        /\ bytes' = save_tape(bl)
        /\ blocks' = parse_blocks(save_tape(bl))
    /\ pc' = "extracting"
    /\ i' = 0
    /\ yielded' = <<>>
    /\ UNCHANGED <<appendVars, nameVars, wavVars, fsVars>>

\* extract_all returns the error of Tape::from_file
extract_open_fails ==
    /\ pc = "start"
    /\ pc' = "extract_error"
    /\ UNCHANGED <<tapeVars, appendVars, nameVars, wavVars, fsVars>>

\* extract_all, one round of the loop: the next file of the iterator, its
\* output path, and extract_file; `created` tells whether File::create and
\* write_all succeed
extract_next ==
    /\ pc = "extracting"
    /\ \E created \in BOOLEAN :
        LET r == files_next(blocks, i)
            customs == Len(SelectSeq(yielded, LAMBDA f : f.kind = "Custom"))
            u == unique_filename(disk, out_path_of(r.file, customs))
        IN  IF r.panic
            THEN pc' = "panic" /\ UNCHANGED <<i, yielded, disk, written>>
            ELSE IF ~ r.some
            THEN pc' = "extracted" /\ UNCHANGED <<i, yielded, disk, written>>
            ELSE /\ i' = r.i
                 /\ yielded' = Append(yielded, r.file)
                 /\ IF u.ok /\ created
                    THEN /\ pc' = "extracting"
                         /\ disk' = create(disk, u.path, extract_bytes(r.file))
                         /\ written' = Append(written, u.path)
                    ELSE /\ pc' = "extract_error"
                         /\ UNCHANGED <<disk, written>>
    /\ UNCHANGED <<bytes, blocks>>
    /\ UNCHANGED <<wpath, before, rderr, added, uniq, noread>>
    /\ UNCHANGED <<appendVars, nameVars, wavVars>>

NextExtract == unique_call \/ extract_open \/ extract_open_fails \/ extract_next

SpecExtract == InitExtract /\ [][NextExtract]_vars

----------------------------------------------------------------------------
(* A file through the tool: add_files, save_tape, Tape::from_file and       *)
(* extract_all                                                             *)

\* extract_all: tape.files() on the tape that was read back
extract_files ==
    /\ pc = "tape"
    /\ pc' = "extracting"
    /\ i' = 0
    /\ yielded' = <<>>
    /\ UNCHANGED <<bytes, blocks>>
    /\ UNCHANGED <<appendVars, nameVars, wavVars, fsVars>>

\* the chunks of Ascii files: those append_ascii builds for the texts, and
\* chunks with a filler at the start, in the middle, twice and nowhere
AsciiChunkSeqs ==
    {Tail(append_ascii(<<>>, FileName, d).blocks) : d \in TextContents \ {<<>>}}
      \cup {<<>>, <<<<>>>>, <<<<EofFiller, 65>>>>, <<<<65, EofFiller, 66, EofFiller>>>>,
            <<<<65, 66>>, <<67, EofFiller, 68>>>>,
            <<<<65, EofFiller, 66>>, <<67, 68>>>>}

\* extract_file(&File::Ascii(name, chunks), name) in an empty directory
extract_ascii_file ==
    /\ pc = "appending" /\ nadded = 0
    /\ \E chunks \in AsciiChunkSeqs :
        /\ yielded' = <<AsciiFile(FileName, chunks)>>
        /\ written' = <<unique_filename(disk, FileName).path>>
        /\ disk' = create(disk, unique_filename(disk, FileName).path,
                          extract_bytes(AsciiFile(FileName, chunks)))
    /\ pc' = "extracted_file"
    /\ UNCHANGED <<bytes, blocks, i>>
    /\ UNCHANGED <<wpath, before, rderr, added, uniq, noread>>
    /\ UNCHANGED <<appendVars, nameVars, wavVars>>

NextRoundTrip ==
    \/ add_bin_file
    \/ add_ascii_file
    \/ extract_ascii_file
    \/ save
    \/ read
    \/ extract_files
    \/ extract_next

SpecRoundTrip == InitAppend /\ [][NextRoundTrip]_vars

----------------------------------------------------------------------------
(* wav.rs: the exporter *)

SampleRate == 43200

Bauds == 1200

SHORT_PULSE == 2400

LONG_PULSE == 1200

SHORT_HEADER == 4000

LONG_HEADER == 16000

u16_le(v) == <<v % 256, (v \div 256) % 256>>

u32_le(v) == <<v % 256, (v \div 256) % 256, (v \div 65536) % 256,
               (v \div 16777216) % 256>>

Riff == <<82, 73, 70, 70>>

Wave == <<87, 65, 86, 69>>

Fmt == <<102, 109, 116, 32>>

Data == <<100, 97, 116, 97>>

\* The buffer is kept as runs: [unit |-> samples, n |-> count] stands for the
\* samples of `unit` repeated n times, and the buffer for the runs one after
\* the other.  Join adds runs at the end of the buffer.
Join(buf, runs) ==
    IF runs = <<>> THEN buf
    ELSE IF buf = <<>> THEN runs
    ELSE IF buf[Len(buf)].unit = runs[1].unit
    THEN SubSeq(buf, 1, Len(buf) - 1)
           \o <<[unit |-> runs[1].unit, n |-> buf[Len(buf)].n + runs[1].n]>>
           \o Tail(runs)
    ELSE buf \o runs

\* the buffer with n more repetitions of the samples `unit` at its end
Emit(buf, unit, n) ==
    Join(buf, IF n = 0 THEN <<>> ELSE <<[unit |-> unit, n |-> n]>>)

\* the number of samples of the runs lo..hi of the buffer
RECURSIVE runs_len(_, _, _)
runs_len(buf, lo, hi) ==
    IF lo > hi THEN 0
    ELSE IF lo = hi THEN Len(buf[lo].unit) * buf[lo].n
    ELSE runs_len(buf, lo, (lo + hi) \div 2)
           + runs_len(buf, ((lo + hi) \div 2) + 1, hi)

\* self.buffer.len()
buffer_len(buf) == runs_len(buf, 1, Len(buf))

\* Exporter::write_wave: the 44 bytes of the header.  Both lengths are u32;
\* the buffers of the model are far below the 2^32 bytes where they wrap.
write_wave(buf) ==
    LET data_len == buffer_len(buf)
        file_len == data_len + 44
    IN  Riff \o u32_le(file_len) \o Wave
          \o Fmt \o u32_le(16) \o u16_le(1) \o u16_le(1)
          \o u32_le(SampleRate) \o u32_le(SampleRate)
          \o u16_le(8) \o u16_le(8)
          \o Data \o u32_le(data_len)

\* write_pulse, `len`: the samples of one pulse
\* a pulse length that does not depend on the frequency
pulse_len_per_baud(freq) == SampleRate \div Bauds

pulse_len(freq) == SampleRate \div (Bauds * (freq \div 1200))

\* write_pulse, `bytes`: (sin(2 pi x / len) * 127.0) as i8 as u8 ^ 0x80 for
\* x in 0..len, computed in f32, for the two lengths the exporter uses
pulse_bytes(len) ==
    IF len = 18
    THEN <<128, 171, 209, 237, 253, 253, 237, 209, 171,
           128, 85, 47, 19, 3, 3, 19, 47, 85>>
    ELSE <<128, 150, 171, 191, 209, 225, 237, 247, 253,
           255, 253, 247, 237, 225, 209, 191, 171, 150,
           128, 106, 85, 65, 47, 31, 19, 9, 3,
           1, 3, 9, 19, 31, 47, 65, 85, 106>>

\* every write gives the new buffer and the Ok(nbytes) it returns
write_pulse(buf, freq) ==
    [buffer |-> Emit(buf, pulse_bytes(pulse_len(freq)), 1),
     nbytes |-> Len(pulse_bytes(pulse_len(freq)))]

\* the runs that write_pulse on each frequency of fs, in order, adds
RECURSIVE pulse_runs(_)
pulse_runs(fs) ==
    IF fs = <<>> THEN <<>>
    ELSE LET n == IF \A k \in DOMAIN fs : fs[k] = fs[1] THEN Len(fs)
                  ELSE CHOOSE k \in DOMAIN fs :
                         fs[k + 1] # fs[1] /\ \A j \in 1..k : fs[j] = fs[1]
         IN  <<[unit |-> pulse_bytes(pulse_len(fs[1])), n |-> n]>>
               \o pulse_runs(SubSeq(fs, n + 1, Len(fs)))

\* write_pulse on each frequency of fs, the returned counts added up
write_pulses(buf, fs) ==
    [buffer |-> Join(buf, pulse_runs(fs)), nbytes |-> buffer_len(pulse_runs(fs))]

\* a byte sent with its most significant bit first
byte_pulses_msb(byte) ==
    <<LONG_PULSE>>
      \o Flatten([k \in 1..8 |-> IF (byte \div (2 ^ (8 - k))) % 2 > 0
                                 THEN <<SHORT_PULSE, SHORT_PULSE>>
                                 ELSE <<LONG_PULSE>>])
      \o <<SHORT_PULSE, SHORT_PULSE, SHORT_PULSE, SHORT_PULSE>>

\* write_byte, the frequencies it hands to write_pulse: in round k the lowest
\* bit of `bits`, which is bit k - 1 of the byte
byte_pulses(byte) ==
    <<LONG_PULSE>>
      \o Flatten([k \in 1..8 |-> IF (byte \div (2 ^ (k - 1))) % 2 > 0
                                 THEN <<SHORT_PULSE, SHORT_PULSE>>
                                 ELSE <<LONG_PULSE>>])
      \o <<SHORT_PULSE, SHORT_PULSE, SHORT_PULSE, SHORT_PULSE>>

write_byte(buf, byte) == write_pulses(buf, byte_pulses(byte))

\* write_data: write_byte on every byte, the returned counts added up.  (The
\* runs of a byte end with short pulses and those of the next byte start
\* with a long one.)
write_data(buf, data) ==
    LET runs == Flatten([k \in 1..Len(data) |-> pulse_runs(byte_pulses(data[k]))])
    IN  [buffer |-> Join(buf, runs), nbytes |-> buffer_len(runs)]

\* a header of one pulse too many
write_header_more(buf, pulses) ==
    LET to == ((pulses * Bauds) \div 1200) + 1
    IN  [buffer |-> Emit(buf, pulse_bytes(pulse_len(SHORT_PULSE)), to),
         nbytes |-> to * Len(pulse_bytes(pulse_len(SHORT_PULSE)))]

\* write_header: `to` times write_pulse(SHORT_PULSE), the counts added up
write_header(buf, pulses) ==
    LET to == (pulses * Bauds) \div 1200
    IN  [buffer |-> Emit(buf, pulse_bytes(pulse_len(SHORT_PULSE)), to),
         nbytes |-> to * Len(pulse_bytes(pulse_len(SHORT_PULSE)))]

\* a silence that returns the new length of the buffer
write_silence_total(buf, pulses) ==
    [buffer |-> Emit(buf, <<128>>, pulses),
     nbytes |-> buffer_len(buf) + pulses]

\* write_silence: `pulses` times one 0x80 byte, the counts added up
write_silence(buf, pulses) ==
    [buffer |-> Emit(buf, <<128>>, pulses), nbytes |-> pulses]

write_short_header(buf) == write_header(buf, SHORT_HEADER)

write_long_header(buf) == write_header(buf, LONG_HEADER)

write_short_silence(buf) == write_silence(buf, SampleRate)

write_long_silence(buf) == write_silence(buf, SampleRate * 2)

\* an export that leaves the last run of the buffer out
export_short(buf) ==
    [header |-> write_wave(buf), data |-> SubSeq(buf, 1, Len(buf) - 1)]

\* Exporter::export: the header, then the buffer, on a writer that takes all
\* the bytes it is given (a Vec<u8>, a file on a healthy disk)
export(buf) == [header |-> write_wave(buf), data |-> buf]

----------------------------------------------------------------------------
(* The calls made on an Exporter *)

MaxWrites == 2

MaxByteWrites == 1

MaxSilence == 3

MaxPulses == 2

WavData == {<<>>, <<0>>, <<255>>, <<65, 2>>}

InitWav ==
    /\ pc = "encoding"
    /\ TapeIdle /\ AppendIdle /\ NameIdle /\ WavIdle /\ FsIdle

Wrote(op, arg, r) ==
    /\ pc \in {"encoding", "exported"}
    /\ nwrites < MaxWrites
    /\ call' = [op |-> op, arg |-> arg]
    /\ buffer' = r.buffer
    /\ nbytes' = r.nbytes
    /\ nwrites' = nwrites + 1
    /\ pc' = "encoding"
    /\ UNCHANGED <<output, encoded>>
    /\ UNCHANGED <<tapeVars, appendVars, nameVars, fsVars>>

do_write_silence ==
    \E pulses \in 0..MaxSilence :
       Wrote("write_silence", <<pulses>>, write_silence(buffer, pulses))

do_write_short_silence ==
    Wrote("write_short_silence", <<>>, write_short_silence(buffer))

do_write_long_silence ==
    Wrote("write_long_silence", <<>>, write_long_silence(buffer))

do_write_header ==
    \E pulses \in 0..MaxPulses :
       Wrote("write_header", <<pulses>>, write_header(buffer, pulses))

do_write_short_header ==
    Wrote("write_short_header", <<>>, write_short_header(buffer))

do_write_long_header ==
    Wrote("write_long_header", <<>>, write_long_header(buffer))

do_write_data ==
    \E data \in WavData : Wrote("write_data", data, write_data(buffer, data))

do_write_byte ==
    /\ nwrites < MaxByteWrites
    /\ \E byte \in 0..255 :
         Wrote("write_byte", <<byte>>, write_byte(buffer, byte))

do_export ==
    /\ pc \in {"encoding", "exported"}
    /\ output' = export(buffer)
    /\ pc' = "exported"
    /\ UNCHANGED <<buffer, nbytes, nwrites, call, encoded>>
    /\ UNCHANGED <<tapeVars, appendVars, nameVars, fsVars>>

NextWav ==
    \/ do_write_silence
    \/ do_write_short_silence
    \/ do_write_long_silence
    \/ do_write_header
    \/ do_write_short_header
    \/ do_write_long_header
    \/ do_write_data
    \/ do_write_byte
    \/ do_export

SpecWav == InitWav /\ [][NextWav]_vars

----------------------------------------------------------------------------
(* main.rs: the export of a tape as audio *)

\* Block::is_file_header: the payload has the header pattern
is_file_header(payload) == is_bin_header(payload)

\* Block::data_without_prefix, on the stored Block
data_without_prefix(d) == SubSeq(d, Len(Marker) + 1, Len(d))

MaxBlocks == 3

ExportPayloads ==
    {<<>>, <<1, 2>>, Pilot, header_block(FileName), ChunkAddrData}

ExportTapes == UNION {[1..n -> ExportPayloads] : n \in 0..MaxBlocks}

InitExport ==
    /\ pc = "start"
    /\ TapeIdle /\ AppendIdle /\ NameIdle /\ WavIdle /\ FsIdle

\* export, up to the loop: the tape is loaded, the exporter and the file
\* created
export_open ==
    /\ pc = "start"
    /\ \E bl \in ExportTapes :
        /\ bytes' = save_tape(bl)
        /\ blocks' = parse_blocks(save_tape(bl))
    /\ pc' = "wav_blocks"
    /\ UNCHANGED <<i, yielded>>
    /\ UNCHANGED <<appendVars, nameVars, wavVars, fsVars>>

\* export returns the error of Tape::from_file or of File::create
export_open_fails ==
    /\ pc = "start"
    /\ pc' = "wav_error"
    /\ UNCHANGED <<tapeVars, appendVars, nameVars, wavVars, fsVars>>

\* export, one round of the loop over the Blocks
export_block ==
    /\ pc = "wav_blocks"
    /\ encoded < Len(blocks)
    /\ LET block == block_data(blocks[encoded + 1])
           s == IF is_file_header(blocks[encoded + 1])
                THEN write_long_silence(buffer)
                ELSE write_short_silence(buffer)
           h == IF is_file_header(blocks[encoded + 1])
                THEN write_long_header(s.buffer)
                ELSE write_short_header(s.buffer)
           d == write_data(h.buffer, data_without_prefix(block))
       IN  /\ buffer' = d.buffer
           /\ nbytes' = s.nbytes + h.nbytes + d.nbytes
           /\ call' = [op |-> "write_data", arg |-> data_without_prefix(block)]
    /\ nwrites' = nwrites + 3
    /\ encoded' = encoded + 1
    /\ pc' = "wav_blocks"
    /\ UNCHANGED output
    /\ UNCHANGED <<tapeVars, appendVars, nameVars, fsVars>>

\* export, behind the loop: exporter.export(&mut wav_file).ok()
export_close ==
    /\ pc = "wav_blocks"
    /\ encoded = Len(blocks)
    /\ output' = export(buffer)
    /\ pc' = "wav_done"
    /\ UNCHANGED <<buffer, nbytes, nwrites, call, encoded>>
    /\ UNCHANGED <<tapeVars, appendVars, nameVars, fsVars>>

NextExport == export_open \/ export_open_fails \/ export_block \/ export_close

SpecExport == InitExport /\ [][NextExport]_vars

----------------------------------------------------------------------------
(* Properties of the decoder *)

\* the offsets (from 0) at which the marker occurs in s
MarkerOffsets(s) == {k \in 0..(Len(s) - 8) : Slice(s, k, k + 8) = Marker}

\* the end of the Block that starts after the marker at offset o
NextMarkerOrEnd(s, o) ==
    LET later == {x \in MarkerOffsets(s) : x > o}
    IN  IF later = {} THEN Len(s)
        ELSE CHOOSE x \in later : \A y \in later : x <= y

Scanned == pc \in {"tape", "iter", "none", "panic"}

\* C1: from_bytes succeeds on every buffer and returns one Block per marker
\* occurrence, in offset order, Block k being the bytes between the end of
\* the k-th marker and the next marker (or the end of the buffer); marker
\* offsets differ by at least 8, no Block holds a marker, and a buffer
\* without marker gives no Block and no File.
C1_ScannerBlocks ==
    /\ pc # "parse_panic"
    /\ Scanned =>
        LET m == MarkerOffsets(bytes)
        IN  /\ Len(blocks) = Cardinality(m)
            /\ \A o \in m :
                 LET k == Cardinality({x \in m : x < o}) + 1
                 IN  /\ o + 8 <= NextMarkerOrEnd(bytes, o)
                     /\ blocks[k] = Slice(bytes, o + 8, NextMarkerOrEnd(bytes, o))
            /\ \A o1, o2 \in m : o1 < o2 => o2 - o1 >= 8
            /\ \A k \in 1..Len(blocks) : MarkerOffsets(blocks[k]) = {}
            /\ m = {} => blocks = <<>> /\ yielded = <<>> /\ pc # "panic"

\* C1 witness: three markers, a Block that starts with 0xFF and the first
\* seven marker bytes, and an empty Block
C1_Witness ==
    /\ pc = "tape"
    /\ Len(blocks) = 3
    /\ \E k \in 1..3 : blocks[k] = ChunkNearMarker
    /\ \E k \in 1..3 : blocks[k] = <<>>

\* the cursor stands on a header Block followed by a Block of >= 6 bytes
HeaderPair(bl, c) ==
    /\ c + 1 < Len(bl)
    /\ is_bin_header(bl[c + 1])
    /\ Len(bl[c + 2]) >= 6

\* what the claim says next() does on such a pair
YieldsBinOfPair ==
    LET h == blocks[i + 1]
        d == blocks[i + 2]
    IN  /\ pc' = "iter"
        /\ i' = i + 2
        /\ yielded' = Append(yielded,
              BinFile(SubSeq(h, 11, 16),
                      d[1] + 256 * d[2], d[3] + 256 * d[4], d[5] + 256 * d[6],
                      SubSeq(d, 7, Len(d))))

FoobarBuffer ==
    Marker \o Pilot \o ChunkFoobar \o Marker \o ChunkAddrData

FoobarDecoded ==
    bytes = FoobarBuffer /\ pc = "none"
        => yielded = <<BinFile(ChunkFoobar, 32768, 32776, 0,
                                <<1, 2, 3, 4, 5, 6, 7>>)>>

\* C2 as stated: on every header Block followed by a Block of at least 6
\* bytes next() yields the Bin file of the pair and advances the cursor by 2
C2_Original ==
    [][HeaderPair(blocks, i) /\ next => YieldsBinOfPair]_vars

\* C2 amended: the same, for a header whose name bytes 10..16 are valid
\* UTF-8; and the FOOBAR buffer decodes to exactly
\* Bin("FOOBAR", 0x8000, 0x8008, 0x0000, [01..07])
C2_BinOfTextHeader ==
    /\ [][HeaderPair(blocks, i) /\ from_utf8_ok(SubSeq(blocks[i + 1], 11, 16))
            /\ next => YieldsBinOfPair]_vars
    /\ []FoobarDecoded

\* C2 witness: the FOOBAR buffer has been decoded to its end
C2_Witness ==
    /\ bytes = FoobarBuffer
    /\ pc = "none"
    /\ Len(yielded) = 1
    /\ i = 2

\* the cursor stands on a header Block that is the last Block, or whose
\* next Block has fewer than 6 bytes
TruncatedPair(bl, c) ==
    /\ c < Len(bl)
    /\ is_bin_header(bl[c + 1])
    /\ \/ c + 1 = Len(bl)
       \/ Len(bl[c + 2]) < 6

\* C7: on a header without data Block, or with a data Block shorter than 6
\* bytes, the iteration returns a MalformedContainer error: it does not
\* crash and yields no File for that header
C7_TruncatedPairIsError ==
    [][TruncatedPair(blocks, i) /\ next
         => pc' = "malformed" /\ yielded' = yielded]_vars

\* the walk over the Blocks from cursor c meets a malformed header
RECURSIVE WalkFails(_, _)
WalkFails(bl, c) ==
    LET r == files_next(bl, c)
    IN  IF r.panic THEN TRUE
        ELSE IF r.some THEN WalkFails(bl, r.i)
        ELSE FALSE

\* C8: when some header Block of the buffer is malformed, no File of that
\* buffer is delivered, not even those that precede the malformed Block
C8_NoPartialDecode ==
    Scanned /\ WalkFails(blocks, 0) => yielded = <<>>

----------------------------------------------------------------------------
(* Properties of the append operations *)

\* the tape holds what the appends built (it was not read back)
Built == pc \in {"appending", "saved"} /\ nadded >= 1

\* the content of the last file as it is stored: a Bin file without its id
Stored ==
    IF last.kind = "Bin" /\ last.data # <<>> /\ last.data[1] = 254
    THEN Tail(last.data) ELSE last.data

\* the payloads of the data Blocks the last append added, concatenated
DataPart ==
    Flatten(SubSeq(blocks, base + (IF last.kind = "Custom" THEN 1 ELSE 2),
                   Len(blocks)))

\* the bytes the last append added behind the content
Inserted == SubSeq(DataPart, Len(Stored) + 1, Len(DataPart))

ZerosInserted == Cardinality({k \in DOMAIN Inserted : Inserted[k] = 0})

\* the least p in 0..7 that makes n + p a multiple of 8
MinPad(n) == CHOOSE p \in 0..7 : (n + p) % 8 = 0 /\ \A q \in 0..(p - 1) : (n + q) % 8 # 0

\* the offset of Block k in the serialized tape
RECURSIVE BlockStart(_, _)
BlockStart(bl, k) ==
    IF k = 1 THEN 0 ELSE BlockStart(bl, k - 1) + 8 + Len(bl[k - 1])

\* every Block is stored, marker first, at an offset divisible by 8
BlocksAligned ==
    LET ser == save_tape(blocks)
    IN  \A k \in 1..Len(blocks) :
          LET off == BlockStart(blocks, k)
          IN  /\ off % 8 = 0
              /\ Slice(ser, off, off + 8) = Marker
              /\ Slice(ser, off + 8, off + 8 + Len(blocks[k])) = blocks[k]

\* the file that decoding must give back for the last added file
RoundTripOf(f) ==
    LET padded == Stored \o Inserted
    IN  /\ f.kind = last.kind
        /\ f.name = last.name
        /\ IF last.kind = "Bin"
           THEN /\ f.begin = padded[1] + 256 * padded[2]
                /\ f.end = padded[3] + 256 * padded[4]
                /\ f.start = padded[5] + 256 * padded[6]
                /\ f.data = SubSeq(padded, 7, Len(padded))
           ELSE f.data = padded

\* C3: a file of any variant appended to an empty Tape, serialized and
\* decoded again comes back as exactly one File of the same variant with the
\* same name and the same payload followed by the reported padding.  (Read
\* in the claim's favour: a Bin file has its six address bytes, and the
\* content holds no marker and does not look like a header Block.)
C3_RoundTrip ==
    /\ nadded = 1
    /\ pc \in {"none", "panic", "parse_panic"}
    /\ last.kind = "Bin" => Len(Stored) >= 6
    /\ MarkerOffsets(Stored) = {}
    /\ ~ is_bin_header(Stored)
    => /\ pc = "none"
       /\ Len(yielded) = 1
       /\ RoundTripOf(yielded[1])

\* C4 as stated: after every append the Blocks of the serialized tape start
\* at offsets divisible by 8, and every append returns the number of zero
\* bytes it inserted, the least 0 <= p < 8 that restores the alignment
C4_Original ==
    Built =>
      /\ BlocksAligned
      /\ SubSeq(DataPart, 1, Len(Stored)) = Stored
      /\ ret = ZerosInserted
      /\ ret \in 0..7

\* C4 amended: the alignment holds after every append; append_bin,
\* append_basic and append_custom insert the least number 0 <= p < 8 of zero
\* bytes that aligns the data Block and return p; append_ascii inserts no
\* zero byte and returns the number of 0x1A filler bytes it added
C4_Alignment ==
    Built =>
      /\ BlocksAligned
      /\ SubSeq(DataPart, 1, Len(Stored)) = Stored
      /\ IF last.kind = "Ascii"
         THEN ZerosInserted = 0 /\ Inserted = Fill(ret, 26)
         ELSE /\ Inserted = Fill(ret, 0)
              /\ ret = ZerosInserted
              /\ ret = MinPad(Len(Stored))

\* C4 witness: a second file, whose content needed 7 zero bytes, was added
\* behind a text file and the tape was serialized
C4_Witness ==
    /\ pc = "saved"
    /\ nadded = 2
    /\ last.kind = "Bin"
    /\ ret = 7
    /\ \E k \in 1..Len(blocks) : Len(blocks[k]) = 256

\* C5: append_ascii fills the payload with 0x1A bytes up to the next
\* multiple of 256 and returns 256 - (length mod 256), or 0 (and no filler)
\* when the length is a multiple of 256
C5_AsciiPadding ==
    Built /\ last.kind = "Ascii" =>
      LET n == Len(last.data)
      IN  /\ ret = (IF n % 256 = 0 THEN 0 ELSE 256 - (n % 256))
          /\ DataPart = last.data \o Fill(ret, 26)
          /\ Len(DataPart) % 256 = 0

\* C5 witness: a text of 257 bytes got 255 filler bytes
C5_Witness ==
    /\ pc = "appending"
    /\ last.kind = "Ascii"
    /\ Len(last.data) = 257
    /\ ret = 255
    /\ Len(DataPart) = 512

----------------------------------------------------------------------------
(* Properties of the tape name *)

\* C6: the tape name of a path is 6 bytes: a stem shorter than 6 bytes
\* followed by spaces, a stem of 6 bytes as it is, the first 6 bytes of a
\* longer stem; the flag is set exactly for the stems longer than 6 bytes;
\* the directory of the path plays no part
C6_TapeName ==
    pc = "named" /\ parts # NoParts =>
      LET st == parts.stem
      IN  /\ Len(fname) = 6
          /\ \A k \in 1..6 : fname[k] = (IF k <= Len(st) THEN st[k] ELSE 32)
          /\ truncated = (Len(st) > 6)

\* C6 witness: a 7-byte stem in a directory, with an extension, was cut
C6_Witness ==
    /\ pc = "named"
    /\ Len(parts.stem) = 7
    /\ parts.dir # <<>>
    /\ parts.ext # <<>>
    /\ truncated
    /\ fname = SubSeq(parts.stem, 1, 6)

----------------------------------------------------------------------------
(* Properties of the exported WAVE file *)

read_u16(s, off) == s[off + 1] + 256 * s[off + 2]

read_u32(s, off) ==
    s[off + 1] + 256 * s[off + 2] + 65536 * s[off + 3] + 16777216 * s[off + 4]

\* C9: the RIFF chunk length at bytes 4..8 of the exported file is the
\* length of the file minus 8
C9_RiffLength ==
    pc = "exported" =>
      read_u32(output.header, 4) = Len(output.header) + buffer_len(output.data) - 8

\* C10: the block-align field at bytes 32..34 of the exported file is 1
C10_BlockAlign ==
    pc = "exported" => read_u16(output.header, 32) = 1

RECURSIVE BitPulses(_, _)
BitPulses(b, k) ==
    IF k = 8 THEN <<>>
    ELSE (IF (b \div (2 ^ k)) % 2 = 1 THEN <<"S", "S">> ELSE <<"L">>)
           \o BitPulses(b, k + 1)

ClaimedPulses(b) == <<"L">> \o BitPulses(b, 0) \o <<"S", "S", "S", "S">>

Popcount(b) == Cardinality({k \in 0..7 : (b \div (2 ^ k)) % 2 = 1})

\* the buffer after one write_pulse for each pulse of ps, in order
RECURSIVE AfterPulses(_, _)
AfterPulses(buf, ps) ==
    IF ps = <<>> THEN buf
    ELSE AfterPulses(write_pulse(buf, IF Head(ps) = "S" THEN 2400 ELSE 1200).buffer,
                     Tail(ps))

\* C12: write_byte(b) adds to the buffer one long pulse, then for the bits 0
\* to 7 of b two short pulses for a 1 and one long pulse for a 0, then four
\* short pulses, and nothing else: 13 + popcount(b) pulses; two different
\* bytes never give the same pulses
C12_BytePulses ==
    /\ [][call'.op = "write_byte" /\ nwrites' = nwrites + 1
            => LET b == call'.arg[1]
               IN  /\ buffer' = AfterPulses(buffer, ClaimedPulses(b))
                   /\ Len(ClaimedPulses(b)) = 13 + Popcount(b)]_vars
    /\ [](nwrites = 0 /\ pc = "encoding"
            => Cardinality({write_byte(buffer, b).buffer : b \in 0..255}) = 256)

\* C12 witness: the byte 0xA5 was written
C12_Witness ==
    /\ call = [op |-> "write_byte", arg |-> <<165>>]
    /\ pc = "encoding"
    /\ buffer_len(buffer) = 396

\* the samples of the runs a are the first samples of the runs b
RunPrefix(a, b) ==
    \/ a = <<>>
    \/ /\ Len(a) <= Len(b)
       /\ SubSeq(b, 1, Len(a) - 1) = SubSeq(a, 1, Len(a) - 1)
       /\ b[Len(a)].unit = a[Len(a)].unit
       /\ a[Len(a)].n <= b[Len(a)].n

\* C19: every write operation leaves the samples written before as they
\* are, adds samples at the end only and returns the number of samples it
\* added; write_silence(n) adds n samples, all 0x80; export leaves the buffer
\* as it is, and a second export writes the same file
C19_AppendOnly ==
    [][/\ nwrites' = nwrites + 1
          => /\ RunPrefix(buffer, buffer')
             /\ nbytes' = buffer_len(buffer') - buffer_len(buffer)
             /\ call'.op = "write_silence"
                  => /\ buffer_len(buffer') = buffer_len(buffer) + call'.arg[1]
                     /\ \A k \in 1..Len(buffer') :
                          (k > Len(buffer) \/ buffer'[k] # buffer[k])
                             => buffer'[k].unit = <<128>>
       /\ pc' = "exported"
          => /\ buffer' = buffer
             /\ pc = "exported" => output' = output]_vars

\* C19 witness: two bytes were written behind other samples, and exported
C19_Witness ==
    /\ pc = "exported"
    /\ nwrites = 2
    /\ call = [op |-> "write_data", arg |-> <<65, 2>>]
    /\ nbytes = 792
    /\ buffer_len(buffer) > 792
    /\ output.data = buffer

\* the runs of the pulses the claim gives for the bytes of a payload, one
\* byte after the other
PayloadRuns(payload) ==
    Flatten([k \in 1..Len(payload) |-> AfterPulses(<<>>, ClaimedPulses(payload[k]))])

HeaderShape(payload) ==
    Len(payload) >= 16 /\ \A k \in 1..10 : payload[k] = 208

\* the samples the claim gives for one Block
BlockRuns(payload) ==
    <<[unit |-> <<128>>, n |-> IF HeaderShape(payload) THEN 86400 ELSE 43200],
      [unit |-> pulse_bytes(18), n |-> IF HeaderShape(payload) THEN 16000 ELSE 4000]>>
      \o PayloadRuns(payload)

\* C13: the export encodes the Blocks in tape order, one at a time, each at
\* the end of the samples of the Blocks before it: a silence, a header tone,
\* then the pulses of write_byte for each payload byte in order.  A header
\* Block gets 86400 samples of 0x80 and 16000 short pulses, every other Block
\* 43200 samples of 0x80 and 4000 short pulses.
C13_ExportOrder ==
    /\ [](pc = "wav_blocks" /\ encoded = 0 => buffer = <<>>)
    /\ [](pc = "wav_done" => encoded = Len(blocks) /\ output.data = buffer)
    /\ [][pc = "wav_blocks" /\ pc' = "wav_blocks"
            => /\ encoded' = encoded + 1
               /\ encoded' <= Len(blocks)
               /\ blocks' = blocks
               /\ buffer' = Join(buffer, BlockRuns(blocks[encoded + 1]))]_vars

\* C13 witness: a header Block and its data Block were encoded and exported
C13_Witness ==
    /\ pc = "wav_done"
    /\ blocks = <<Pilot \o ChunkFoobar, ChunkAddrData>>
    /\ buffer_len(buffer) = (86400 + 16000 * 18 + 16 * 396)
                             + (43200 + 4000 * 18 + 13 * 396)

----------------------------------------------------------------------------
(* Properties of the files on disk *)

\* C14: in every state of write_content, and after the failure of any of
\* its steps, the target path holds the complete previous content or the
\* complete new content: never no file, an empty file or a part of it
C14_AtomicWrite ==
    pc \in {"wc_create", "wc_write", "wc_remove", "wc_rename",
            "add_done", "add_error"}
      => IF exists(before, wpath)
         THEN exists(disk, wpath) /\ disk[wpath] \in {before[wpath], bytes}
         ELSE exists(disk, wpath) => disk[wpath] = bytes

\* C15: when read_to_end fails on a source file, read_content and the add_*
\* operation return the error: no Block is appended for that file and the
\* CAS file is not written
C15_ReadErrorPropagated ==
    /\ [][rderr' /\ ~ rderr => pc' = "add_error" /\ blocks' = blocks]_vars
    /\ [](rderr => disk = before)

\* the Blocks of the tape bl after the files fs have been appended, in order
RECURSIVE AppendAll(_, _)
AppendAll(bl, fs) ==
    IF fs = <<>> THEN bl
    ELSE AppendAll(append_file(bl, Head(fs).kind, Head(fs).name, Head(fs).data).blocks,
                   Tail(fs))

\* C16: after a successful add_files the CAS file holds the Blocks it held
\* before, unchanged and in the same order, followed by the Blocks of the
\* added files in argument order, and its old content is the start of its
\* new content; when there was no CAS file, the file is created and holds
\* the Blocks of the added files
C16_OnlyAppends ==
    pc = "add_done" =>
      LET old == IF exists(before, wpath) THEN before[wpath] ELSE <<>>
      IN  /\ exists(disk, wpath)
          /\ parse_blocks(disk[wpath]) = AppendAll(parse_blocks(old), added)
          /\ SubSeq(disk[wpath], 1, Len(old)) = old


\* the path the property names for suffix n: stem-n.ext next to the path
SuffixedPath(pt, n) == pt.dir \o pt.stem \o <<Dash>> \o fmt_decimal(n) \o pt.ext

\* the smallest suffix N >= 1 whose path is not on the disk
SmallestFree(pt) ==
    CHOOSE n \in 1..(Cardinality(DOMAIN disk) + 1) :
        /\ SuffixedPath(pt, n) \notin DOMAIN disk
        /\ \A m \in 1..(n - 1) : SuffixedPath(pt, m) \in DOMAIN disk

\* C17: unique_filename(p) returns (p, false) when p does not exist and
\* otherwise (stem-N.ext, true) for the smallest N >= 1 whose path does not
\* exist, and the returned path never exists; during one extract_all no file
\* that existed before the run is written to, and no two entries of the tape
\* are written to the same path.
C17_UniqueNames ==
    /\ pc = "unique" =>
        /\ uniq.res.ok
        /\ uniq.res.path \notin DOMAIN disk
        /\ uniq.path \notin DOMAIN disk =>
                uniq.res.path = uniq.path /\ ~ uniq.res.clash
        /\ uniq.path \in DOMAIN disk =>
                /\ uniq.res.clash
                /\ uniq.res.path = SuffixedPath(uniq.parts, SmallestFree(uniq.parts))
    /\ \A k \in 1..Len(written) :
        /\ written[k] \notin DOMAIN before
        /\ \A j \in 1..(k - 1) : written[j] # written[k]
    /\ \A q \in DOMAIN before : q \in DOMAIN disk /\ disk[q] = before[q]


\* the files an iteration from cursor c yields before it reaches cursor upto
RECURSIVE FilesFrom(_, _, _)
FilesFrom(bl, c, upto) ==
    IF c >= upto \/ files_next(bl, c).panic \/ ~ files_next(bl, c).some
    THEN <<>>
    ELSE <<files_next(bl, c).file>> \o FilesFrom(bl, files_next(bl, c).i, upto)

\* one step on a Block that is not a header: a Custom file of its payload
StepsOverOne ==
    /\ ~ HeaderShape(blocks[i + 1])
    /\ pc' = "iter"
    /\ i' = i + 1
    /\ yielded' = Append(yielded, CustomFile(blocks[i + 1]))

\* one step on a header Block: the header and the next Block, whatever the
\* payload of the next Block is
StepsOverTwo ==
    /\ HeaderShape(blocks[i + 1])
    /\ pc' = "iter"
    /\ i' = i + 2
    /\ Len(yielded') = Len(yielded) + 1
    /\ yielded'[Len(yielded')].kind = "Bin"
    /\ SubSeq(yielded', 1, Len(yielded)) = yielded

\* C18: the iteration covers the Blocks in order, each exactly once: files()
\* starts at cursor 0; each next() before the end advances the cursor by 1
\* (a Block that is not a header, yielded as a Custom file of its payload) or
\* by 2 (a header Block with the Block after it, header-shaped or not); the
\* cursor never exceeds the number of Blocks, there are at most as many
\* steps as Blocks, and the iteration ends with every Block covered; a new
\* files() yields the same sequence, and iterating leaves the Tape as it is.
C18_IterationCovers ==
    /\ [][files => i' = 0 /\ yielded' = <<>>]_vars
    /\ [][next /\ i < Len(blocks) => StepsOverOne \/ StepsOverTwo]_vars
    /\ [][next /\ i >= Len(blocks) => pc' = "none" /\ i' = i]_vars
    /\ [][next \/ files => blocks' = blocks /\ bytes' = bytes]_vars
    /\ [](pc \in {"iter", "none"} =>
            /\ i <= Len(blocks)
            /\ Len(yielded) <= Len(blocks)
            /\ yielded = FilesFrom(blocks, 0, i))


\* from cursor c on, in the order the iteration takes the Blocks: a header
\* Block is followed by a data Block of the same file, and a Block that is
\* neither a header nor the data Block of a header is a Custom file
RECURSIVE WellPaired(_, _, _)
WellPaired(bl, rl, c) ==
    IF c >= Len(bl) THEN TRUE
    ELSE IF is_bin_header(bl[c + 1])
    THEN /\ c + 2 <= Len(bl)
         /\ rl[c + 1].part = "header"
         /\ rl[c + 2].part = "data"
         /\ rl[c + 2].file = rl[c + 1].file
         /\ WellPaired(bl, rl, c + 2)
    ELSE /\ rl[c + 1].part = "custom"
         /\ WellPaired(bl, rl, c + 1)

\* C20: after any sequence of appends to an empty Tape every header Block is
\* followed by exactly one data Block of the same file (it is never the last
\* Block nor followed by the header of another file), and every Block that
\* is neither a header nor the data Block of a header is a Custom file.
C20_TapeStructure ==
    pc = "appending" => WellPaired(blocks, roles, 0)


\* C21: with 1200 baud and 43200 samples per second a long pulse is 36
\* samples and a short pulse 18, so two short pulses last as long as one long
\* pulse; write_byte adds 396 samples for every byte value, and write_data on
\* k bytes adds 396 * k samples.
C21_SampleCounts ==
    /\ [](/\ pulse_len(LONG_PULSE) = 36
          /\ pulse_len(SHORT_PULSE) = 18
          /\ write_pulse(buffer, LONG_PULSE).nbytes = 36
          /\ write_pulse(buffer, SHORT_PULSE).nbytes = 18
          /\ buffer_len(write_pulse(write_pulse(buffer, SHORT_PULSE).buffer,
                                    SHORT_PULSE).buffer)
               = buffer_len(write_pulse(buffer, LONG_PULSE).buffer))
    /\ [][call'.op = "write_byte" /\ nwrites' = nwrites + 1
            => /\ nbytes' = 396
               /\ buffer_len(buffer') = buffer_len(buffer) + 396]_vars
    /\ [][call'.op = "write_data" /\ nwrites' = nwrites + 1
            => /\ nbytes' = 396 * Len(call'.arg)
               /\ buffer_len(buffer') = buffer_len(buffer) + 396 * Len(call'.arg)]_vars

\* C21 witness: the byte 0xFF (all short pulses) and then two bytes of data
\* were written
C21_Witness ==
    /\ pc = "encoding"
    /\ call = [op |-> "write_data", arg |-> <<65, 2>>]
    /\ nbytes = 792
    /\ buffer_len(buffer) = 396 + 792
    /\ buffer[1].unit = pulse_bytes(36) /\ buffer[1].n = 1
    /\ buffer[2].unit = pulse_bytes(18) /\ buffer[2].n = 20


\* add_files is in write_content
Saving == pc \in {"wc_create", "wc_write", "wc_remove", "wc_rename"}

\* C22: add_files is all or nothing for the CAS file: when reading, naming
\* or appending an input file fails, add_files returns the error before the
\* tape is saved and the disk is what it was before the call, the files
\* appended before not being written; the tape is written at most once per
\* call, after all input files were appended.
C22_AllOrNothing ==
    /\ [][pc = "adding" /\ pc' = "add_error" => disk' = before]_vars
    /\ [][rderr' /\ ~ rderr => pc' = "add_error"]_vars
    /\ [](rderr => ~ Saving /\ pc # "add_done" /\ disk = before)
    /\ [][disk' # disk => Saving /\ bytes = save_tape(blocks)]_vars
    /\ [][pc' = "wc_create" => pc = "adding"]_vars
    /\ [][Saving => blocks' = blocks /\ bytes' = bytes /\ added' = added]_vars
    /\ [][pc \notin {"add_done", "add_error"}]_vars


\* the last file added was a .bin file: 0xFE, six address bytes and the
\* program bytes
BinAdded ==
    /\ nadded >= 1
    /\ last.kind = "Bin"
    /\ Len(last.data) >= 7
    /\ last.data[1] = BinId

\* C23: a .bin file of bytes 0xFE + C that was added, saved, read back and
\* extracted comes out as 0xFE + C followed by the zero padding the append
\* reported; append_bin removes one leading 0xFE when the data starts with
\* it and nothing otherwise, and extraction writes one 0xFE before the data
\* of the Bin file.
C23_BinRoundTrip ==
    /\ [](pc = "extracted" /\ BinAdded
            => /\ written # <<>>
               /\ disk[written[Len(written)]] = last.data \o Fill(ret, 0))
    /\ [](pc = "appending" /\ nadded >= 1 /\ last.kind = "Bin"
            => blocks[Len(blocks)] =
                 (IF last.data # <<>> /\ last.data[1] = BinId
                  THEN SubSeq(last.data, 2, Len(last.data))
                  ELSE last.data) \o Fill(ret, 0))
    /\ [](pc \in {"extracting", "extracted"}
            => \A k \in 1..Len(written) :
                 yielded[k].kind = "Bin"
                   => disk[written[k]] = <<BinId>> \o yielded[k].data)


\* the bytes of a chunk that stand before every 0x1A of the chunk
TextOf(chunk) ==
    SubSeq(chunk, 1,
           Cardinality({k \in 1..Len(chunk) :
                          \A j \in 1..k : chunk[j] # EofFiller}))

\* C24: extracting an Ascii file writes, chunk after chunk, the bytes of the
\* chunk that stand before its first 0x1A (the whole chunk when it has
\* none); so a text without 0x1A that append_ascii stored comes out of the
\* extraction as it was, without any filler, and never longer than it was.
C24_AsciiExtraction ==
    /\ [](pc = "extracted_file"
            => disk[written[1]]
                 = Flatten([k \in 1..Len(yielded[1].data) |->
                              TextOf(yielded[1].data[k])]))
    /\ [](pc = "appending" /\ nadded = 0
            => \A d \in TextContents :
                 extract_bytes(AsciiFile(FileName,
                     Tail(append_ascii(<<>>, FileName, d).blocks))) = d)
    /\ [](pc = "extracted" /\ nadded = 1 /\ last.kind = "Ascii"
            => /\ Len(written) = 1
               /\ Len(disk[written[1]]) <= Len(last.data)
               /\ disk[written[1]] = last.data)

====
